---- MODULE Spec2Model ----
(***************************************************************************)
(* A model of main.py: the export of a user's manga reading history from   *)
(* a paged GraphQL feed (get_user_id, get_manga_history) into calendar     *)
(* events (parse_progress, format_date_ics, generate_ics).                 *)
(*                                                                         *)
(* Python values are modelled as follows.                                  *)
(*   - None is the string None below.                                      *)
(*   - A str that the code inspects character by character (the raw        *)
(*     progress) is a sequence of one-character strings.                   *)
(*   - The raw progress is a record [kind, n, s]: kind "none" (None),      *)
(*     "int" (a number, value n) or "str" (a string, characters s).        *)
(*   - Text the code only builds (summary, description, UID, stamps) is a  *)
(*     TLA+ string built by concatenation.                                 *)
(***************************************************************************)
EXTENDS Integers, Sequences, FiniteSets, TLC

(***************************************************************************)
(* Program constants                                                       *)
(***************************************************************************)
MINUTES_PER_CHAPTER == 4

\* the 2-hour window of the time shifting, in seconds
ShiftWindow == 7200

\* the jump from an untracked title above which a session counts 1 chapter
ImportJump == 500

(***************************************************************************)
(* Bounds of the model                                                     *)
(***************************************************************************)
\* most activities the server ever holds for the user
MaxActs == 2

\* activities per page (the query asks for 50)
PerPage == 1

None == "<None>"

(***************************************************************************)
(* str helpers                                                             *)
(***************************************************************************)
Digits == <<"0", "1", "2", "3", "4", "5", "6", "7", "8", "9">>

IsDigit(c) == \E i \in 1..10 : Digits[i] = c

DigitVal(c) == (CHOOSE i \in 1..10 : Digits[i] = c) - 1

IsSpace(c) == c \in {" ", "\t", "\n"}

\* str.strip(): drop the leading and the trailing whitespace
RECURSIVE LStrip(_)
LStrip(s) == IF s # <<>> /\ IsSpace(Head(s)) THEN LStrip(Tail(s)) ELSE s

RECURSIVE RStrip(_)
RStrip(s) ==
    IF s # <<>> /\ IsSpace(s[Len(s)]) THEN RStrip(SubSeq(s, 1, Len(s) - 1)) ELSE s

Strip(s) == RStrip(LStrip(s))

\* '-' in s
HasDash(s) == \E i \in 1..Len(s) : s[i] = "-"

\* s.split('-')[-1]: what follows the last '-'
LastPart(s) ==
    LET k == CHOOSE i \in 1..Len(s) :
                 s[i] = "-" /\ \A j \in (i + 1)..Len(s) : s[j] # "-"
    IN  SubSeq(s, k + 1, Len(s))

\* the value of a run of digits and single inner underscores, most
\* significant first
RECURSIVE DigitsValue(_, _)
DigitsValue(s, acc) ==
    IF s = <<>> THEN acc
    ELSE IF Head(s) = "_" THEN DigitsValue(Tail(s), acc)
    ELSE DigitsValue(Tail(s), 10 * acc + DigitVal(Head(s)))

\* the literal int() accepts after the sign: digits, with single
\* underscores only between digits
IsIntBody(s) ==
    /\ s # <<>>
    /\ \A i \in 1..Len(s) : IsDigit(s[i]) \/ s[i] = "_"
    /\ IsDigit(s[1]) /\ IsDigit(s[Len(s)])
    /\ \A i \in 1..(Len(s) - 1) : ~(s[i] = "_" /\ s[i + 1] = "_")

\* int(s) for a str s: [ok |-> FALSE] stands for ValueError
PyInt(s) ==
    LET t == Strip(s)
        signed == t # <<>> /\ (Head(t) = "-" \/ Head(t) = "+")
        body == IF signed THEN Tail(t) ELSE t
    IN  IF IsIntBody(body)
        THEN [ok |-> TRUE,
              v |-> IF signed /\ Head(t) = "-" THEN 0 - DigitsValue(body, 0)
                    ELSE DigitsValue(body, 0)]
        ELSE [ok |-> FALSE, v |-> 0]

(***************************************************************************)
(* parse_progress                                                          *)
(***************************************************************************)
NoProgress == [kind |-> "none", n |-> 0, s |-> <<>>]

IntProgress(n) == [kind |-> "int", n |-> n, s |-> <<>>]

StrProgress(s) == [kind |-> "str", n |-> 0, s |-> s]

\* a finite float, given in tenths: FloatProgress(27) is 2.7
FloatProgress(tenths) == [kind |-> "float", n |-> tenths, s |-> <<>>]

\* float('inf') and float('nan'), which json.loads yields for 1e999 and NaN
InfProgress == [kind |-> "inf", n |-> 0, s |-> <<>>]

NanProgress == [kind |-> "nan", n |-> 0, s |-> <<>>]

\* int(x) for a finite float of the given tenths: truncation toward zero
IntOfFloat(tenths) ==
    IF tenths >= 0 THEN tenths \div 10 ELSE 0 - ((0 - tenths) \div 10)

\* int(val) of the isinstance branch is outside any try: OverflowError for
\* an infinity, ValueError for a nan
ParseRaises(val) == val.kind \in {"inf", "nan"}

\* the value returned, for a val on which parse_progress does not raise
parse_progress(val) ==
    IF val.kind = "none" THEN 0
    ELSE IF val.kind = "int" THEN val.n
    ELSE IF val.kind = "float" THEN IntOfFloat(val.n)
    ELSE LET val_str == Strip(val.s)
         IN  IF HasDash(val_str)
             THEN LET r == PyInt(Strip(LastPart(val_str)))
                  IN  IF r.ok THEN r.v ELSE 0
             ELSE LET r == PyInt(val_str)
                  IN  IF r.ok THEN r.v ELSE 0

(***************************************************************************)
(* format_date_ics: the UTC calendar date and time of a timestamp >= 0,    *)
(* as strftime('%Y%m%dT%H%M%SZ') prints it                                 *)
(***************************************************************************)
\* %m, %d, %H, %M, %S: two digits, zero padded
Pad2(n) == IF n < 10 THEN "0" \o ToString(n) ELSE ToString(n)

\* %Y: four digits, zero padded
Pad4(n) ==
    IF n < 10 THEN "000" \o ToString(n)
    ELSE IF n < 100 THEN "00" \o ToString(n)
    ELSE IF n < 1000 THEN "0" \o ToString(n)
    ELSE ToString(n)

\* the proleptic Gregorian date of the day `days` days after 1970-01-01
CivilFromDays(days) ==
    LET z == days + 719468
        era == z \div 146097
        doe == z - era * 146097
        yoe == (doe - (doe \div 1460) + (doe \div 36524) - (doe \div 146096)) \div 365
        doy == doe - (365 * yoe + (yoe \div 4) - (yoe \div 100))
        mp == (5 * doy + 2) \div 153
        d == doy - ((153 * mp + 2) \div 5) + 1
        m == IF mp < 10 THEN mp + 3 ELSE mp - 9
        y == yoe + era * 400 + (IF m <= 2 THEN 1 ELSE 0)
    IN  [year |-> y, month |-> m, day |-> d]

format_date_ics(timestamp) ==
    LET date == CivilFromDays(timestamp \div 86400)
        secs == timestamp % 86400
    IN  Pad4(date.year) \o Pad2(date.month) \o Pad2(date.day) \o "T"
        \o Pad2(secs \div 3600) \o Pad2((secs % 3600) \div 60) \o Pad2(secs % 60)
        \o "Z"

(***************************************************************************)
(* The activities the server can hold.  An activity is a record            *)
(* [id, createdAt, progress, status, media]; media is a record             *)
(* [id, title, english, romaji, type], or NoMedia where the feed gives     *)
(* none.  title is None where the feed gives no title object and "{}"      *)
(* where it gives one, whose names are english and romaji.                 *)
(***************************************************************************)
NoMedia ==
    [id |-> 0, title |-> None, english |-> None, romaji |-> None, type |-> None]

SoloLeveling ==
    [id |-> 1, title |-> "{}", english |-> "Solo Leveling",
     romaji |-> "Ore dake Level Up", type |-> "MANGA"]

Kimetsu ==
    [id |-> 2, title |-> "{}", english |-> None, romaji |-> "Kimetsu no Yaiba",
     type |-> "MANGA"]

Frieren ==
    [id |-> 3, title |-> "{}", english |-> "Frieren",
     romaji |-> "Sousou no Frieren", type |-> "ANIME"]

\* a manga whose title object holds no name
Nameless ==
    [id |-> 4, title |-> "{}", english |-> None, romaji |-> "", type |-> "MANGA"]

\* a manga without a title object
Untitled ==
    [id |-> 5, title |-> None, english |-> None, romaji |-> None, type |-> "MANGA"]

\* an activity before the server numbers it
Entry(createdAt, progress, status, media) ==
    [id |-> 0, createdAt |-> createdAt, progress |-> progress,
     status |-> status, media |-> media]

\* creation times: 1010 falls inside a session begun at 1000; 1240 is the end
\* of a one-chapter session begun at 1000, and is exactly ShiftWindow before
\* the end of a one-chapter session begun at 8200
CreationTimes == {1000, 1010, 1240, 8200}

\* a feed whose creation times vary
TimeFamily ==
    { Entry(t, ps[1], ps[2], SoloLeveling) :
        t \in CreationTimes,
        ps \in {<<NoProgress, "CURRENT">>, <<NoProgress, "COMPLETED">>,
                <<IntProgress(10), "CURRENT">>, <<IntProgress(25), "CURRENT">>} }

\* a feed whose progress values vary, over two titles
ProgressFamily ==
    { Entry(1000, p, "CURRENT", SoloLeveling) :
        p \in {NoProgress, IntProgress(-3), IntProgress(5), IntProgress(500),
               IntProgress(501), IntProgress(600),
               StrProgress(<<"1", "1", "1", " ", "-", " ", "1", "2", "1">>),
               StrProgress(<<"a", "b", "c">>)} }
    \cup { Entry(1000, p, "COMPLETED", SoloLeveling) :
             p \in {NoProgress, IntProgress(5)} }
    \cup { Entry(1000, p, "CURRENT", Kimetsu) :
             p \in {NoProgress, IntProgress(5),
                    StrProgress(<<"1", "1", "1", " ", "-", " ", "1", "2", "1">>)} }

\* a feed that holds more than manga
MixedFamily ==
    { Entry(1000, IntProgress(3), "CURRENT", Frieren),
      Entry(1000, NoProgress, "CURRENT", NoMedia),
      Entry(1010, IntProgress(5), "CURRENT", Kimetsu),
      Entry(1000, IntProgress(7), "CURRENT", Nameless),
      Entry(1000, IntProgress(5), "CURRENT", Untitled) }

\* a feed of long sessions on two titles, one recorded with an earlier time
OverlapFamily ==
    { Entry(8200, IntProgress(25), "CURRENT", SoloLeveling),
      Entry(6000, IntProgress(25), "CURRENT", Kimetsu) }

Families == {TimeFamily, ProgressFamily, MixedFamily, OverlapFamily}

\* what the user may record while the history is being fetched
NewEntries ==
    { Entry(8200, IntProgress(25), "CURRENT", SoloLeveling),
      Entry(1010, NoProgress, "PAUSED", Kimetsu) }

(***************************************************************************)
(* State                                                                   *)
(***************************************************************************)
VARIABLES
    pc,                \* where main is: "get_user_id", "get_manga_history",
                       \* "generate_ics", "loop", "done"
    outcome,           \* "" while running, then "written" or "error"
    db,                \* the server: the user's activities, newest (largest id) first
    page,              \* get_manga_history: page
    all_activities,    \* get_manga_history: all_activities; then main's history
    activities,        \* generate_ics: activities, once sorted
    idx,               \* generate_ics: the position of the for loop in activities
    progress_tracker,  \* generate_ics: progress_tracker, a function on the media ids recorded
    global_last_end,   \* generate_ics: time_tracker['global_last_end']
    ics_events,        \* generate_ics: the VEVENT blocks of ics_lines, in order
    file,              \* the output file
    log,               \* history: one record per activity processed by the loop
    response,          \* get_manga_history: how the latest request was answered:
                       \* "429", "errors", "exception", "empty", "last", "more"
    requested,         \* get_manga_history: the page the latest request asked for
    slept,             \* get_manga_history: parity of the time.sleep(60) calls made
    raw,               \* parse_progress called on its own: val
    parsed             \* parse_progress called on its own: how the call ended

vars ==
    <<pc, outcome, db, page, all_activities, activities, idx, progress_tracker,
      global_last_end, ics_events, file, log, response, requested, slept,
      raw, parsed>>

NoFile == [written |-> FALSE, events |-> <<>>]

NotParsed == [called |-> FALSE, raised |-> FALSE, v |-> 0]

Init ==
    /\ pc = "get_user_id"
    /\ outcome = ""
    /\ \E n \in 0..MaxActs : \E F \in Families : \E entries \in [1..n -> F] :
           db = [k \in 1..n |-> [entries[k] EXCEPT !.id = n - k + 1]]
    /\ page = 0
    /\ all_activities = <<>>
    /\ activities = <<>>
    /\ idx = 0
    /\ progress_tracker = <<>>
    /\ global_last_end = 0
    /\ ics_events = <<>>
    /\ file = NoFile
    /\ log = <<>>
    /\ response = ""
    /\ requested = 0
    /\ slept = 0
    /\ raw = NoProgress
    /\ parsed = NotParsed

(***************************************************************************)
(* get_user_id and main's handler                                          *)
(***************************************************************************)
\* the server knows the user: main goes on to get_manga_history, which
\* starts at page 1 with nothing collected
GetUserIdFound ==
    /\ pc = "get_user_id"
    /\ pc' = "get_manga_history"
    /\ page' = 1
    /\ all_activities' = <<>>
    /\ UNCHANGED <<outcome, db, activities, idx, progress_tracker,
                   global_last_end, ics_events, file, log>>
    /\ UNCHANGED <<response, requested, slept, raw, parsed>>

\* the response holds 'errors' (or the request fails): the exception reaches
\* main's handler, which prints it; nothing is fetched or written
GetUserIdFails ==
    /\ pc = "get_user_id"
    /\ pc' = "done"
    /\ outcome' = "error"
    /\ UNCHANGED <<db, page, all_activities, activities, idx, progress_tracker,
                   global_last_end, ics_events, file, log>>
    /\ UNCHANGED <<response, requested, slept, raw, parsed>>

(***************************************************************************)
(* The server                                                              *)
(***************************************************************************)
\* the activities of page p, and pageInfo.hasNextPage
PageItems(p) ==
    SubSeq(db, (p - 1) * PerPage + 1,
           IF p * PerPage < Len(db) THEN p * PerPage ELSE Len(db))

HasNextPage(p) == p * PerPage < Len(db)

\* the user records an activity while the history is being fetched: it gets
\* the next id and, the feed being sorted ID_DESC, comes first
NewActivity ==
    /\ pc = "get_manga_history"
    /\ Len(db) <= MaxActs
    /\ \E e \in NewEntries :
           db' = <<[e EXCEPT !.id = Len(db) + 1]>> \o db
    /\ UNCHANGED <<pc, outcome, page, all_activities, activities, idx,
                   progress_tracker, global_last_end, ics_events, file, log>>
    /\ UNCHANGED <<response, requested, slept, raw, parsed>>

(***************************************************************************)
(* get_manga_history: one action per way an iteration of the loop can go   *)
(***************************************************************************)
\* the return of get_manga_history into main, which calls generate_ics
ReturnHistory ==
    /\ pc' = "generate_ics"
    /\ page' = 0

\* the filter of the page: activities with a media of type MANGA
RECURSIVE MangaOf(_)
MangaOf(items) ==
    IF items = <<>> THEN <<>>
    ELSE IF Head(items).media = NoMedia THEN MangaOf(Tail(items))
    ELSE IF Head(items).media.type = "MANGA"
         THEN <<Head(items)>> \o MangaOf(Tail(items))
    ELSE MangaOf(Tail(items))

\* the request for the current page has been sent and answered
Answered(how) ==
    /\ response' = how
    /\ requested' = page
    /\ UNCHANGED <<slept, raw, parsed>>

\* FetchRateLimited moving on to the next page, if any, after the sleep
FetchRateLimited_SkipsPage ==
    /\ pc = "get_manga_history"
    /\ response' = "429"
    /\ requested' = page
    /\ slept' = 1 - slept
    /\ page' = IF HasNextPage(page) THEN page + 1 ELSE page
    /\ UNCHANGED <<pc, outcome, db, all_activities, activities, idx,
                   progress_tracker, global_last_end, ics_events, file, log,
                   raw, parsed>>

\* status 429: time.sleep(60), then continue: the same iteration again
FetchRateLimited ==
    /\ pc = "get_manga_history"
    /\ response' = "429"
    /\ requested' = page
    /\ slept' = 1 - slept
    /\ UNCHANGED <<pc, outcome, db, page, all_activities, activities, idx,
                   progress_tracker, global_last_end, ics_events, file, log,
                   raw, parsed>>

\* 'errors' in the response: break
FetchErrors ==
    /\ pc = "get_manga_history"
    /\ ReturnHistory
    /\ UNCHANGED <<outcome, db, all_activities, activities, idx,
                   progress_tracker, global_last_end, ics_events, file, log>>
    /\ Answered("errors")

\* FetchException returning an empty list
FetchException_DiscardsCollected ==
    /\ pc = "get_manga_history"
    /\ ReturnHistory
    /\ all_activities' = <<>>
    /\ UNCHANGED <<outcome, db, activities, idx,
                   progress_tracker, global_last_end, ics_events, file, log>>
    /\ Answered("exception")

\* the request or the decoding of the response raises: break
FetchException ==
    /\ pc = "get_manga_history"
    /\ ReturnHistory
    /\ UNCHANGED <<outcome, db, all_activities, activities, idx,
                   progress_tracker, global_last_end, ics_events, file, log>>
    /\ Answered("exception")

\* the page holds no activities: break
FetchEmptyPage ==
    /\ pc = "get_manga_history"
    /\ PageItems(page) = <<>>
    /\ ReturnHistory
    /\ UNCHANGED <<outcome, db, all_activities, activities, idx,
                   progress_tracker, global_last_end, ics_events, file, log>>
    /\ Answered("empty")

\* the last page: its manga activities are collected, then break
FetchLastPage ==
    /\ pc = "get_manga_history"
    /\ PageItems(page) # <<>>
    /\ ~HasNextPage(page)
    /\ all_activities' = all_activities \o MangaOf(PageItems(page))
    /\ ReturnHistory
    /\ UNCHANGED <<outcome, db, activities, idx, progress_tracker,
                   global_last_end, ics_events, file, log>>
    /\ Answered("last")

\* FetchPage asking for the same page again, with nothing collected
FetchPage_StaysOnPage ==
    /\ pc = "get_manga_history"
    /\ PageItems(page) # <<>>
    /\ HasNextPage(page)
    /\ UNCHANGED <<pc, outcome, db, page, all_activities, activities, idx,
                   progress_tracker, global_last_end, ics_events, file, log>>
    /\ Answered("more")

\* a page with a next page: its manga activities are collected, page += 1
FetchPage ==
    /\ pc = "get_manga_history"
    /\ PageItems(page) # <<>>
    /\ HasNextPage(page)
    /\ all_activities' = all_activities \o MangaOf(PageItems(page))
    /\ page' = page + 1
    /\ UNCHANGED <<pc, outcome, db, activities, idx, progress_tracker,
                   global_last_end, ics_events, file, log>>
    /\ Answered("more")

(***************************************************************************)
(* generate_ics                                                            *)
(***************************************************************************)
\* list.sort(key = id): ascending, and stable
RECURSIVE InsertById(_, _)
InsertById(sorted, act) ==
    IF sorted = <<>> THEN <<act>>
    ELSE IF act.id < Head(sorted).id THEN <<act>> \o sorted
    ELSE <<Head(sorted)>> \o InsertById(Tail(sorted), act)

\* SortById leaving the list in the order it was given
SortById_KeepsOrder(acts) == acts

RECURSIVE SortById(_)
SortById(acts) ==
    IF acts = <<>> THEN <<>>
    ELSE InsertById(SortById(SubSeq(acts, 1, Len(acts) - 1)), acts[Len(acts)])

\* a value `or` skips: None and the empty string
Falsy(x) == x = None \/ x = ""

\* TitleOf preferring the romaji name to the english one
TitleOf_RomajiFirst(media) ==
    IF ~Falsy(media.romaji) THEN media.romaji
    ELSE IF ~Falsy(media.english) THEN media.english
    ELSE "Unknown Title"

\* title['english'] or title['romaji'] or "Unknown Title"
TitleOf(media) ==
    IF ~Falsy(media.english) THEN media.english
    ELSE IF ~Falsy(media.romaji) THEN media.romaji
    ELSE "Unknown Title"

\* parse_progress(progress_tracker.get(media_id, 0))
PreviousProgress(tracker, media_id) ==
    parse_progress(IntProgress(IF media_id \in DOMAIN tracker
                               THEN tracker[media_id] ELSE 0))

\* ChaptersRead with the import correction applied to any jump above
\* ImportJump, whatever the previous progress
ChaptersRead_AnyBigJump(current_progress, previous_progress) ==
    LET jump == current_progress - previous_progress
        counted == IF current_progress > previous_progress
                   THEN IF jump > ImportJump THEN 1 ELSE jump
                   ELSE 1
    IN  IF counted < 1 THEN 1 ELSE counted

\* ChaptersRead as the plain difference, without the default of 1
ChaptersRead_NoFloor(current_progress, previous_progress) ==
    LET jump == current_progress - previous_progress
    IN  IF current_progress > previous_progress
           /\ previous_progress = 0 /\ jump > ImportJump
        THEN 1 ELSE jump

\* the chapters read, from the current and the previous progress
ChaptersRead(current_progress, previous_progress) ==
    LET jump == current_progress - previous_progress
        counted == IF current_progress > previous_progress
                   THEN IF previous_progress = 0 /\ jump > ImportJump
                        THEN 1 ELSE jump
                   ELSE 1
    IN  IF counted < 1 THEN 1 ELSE counted

DurationMinutes(chapters_read) == chapters_read * MINUTES_PER_CHAPTER

\* DurationSeconds without the conversion to seconds
DurationSeconds_MinutesOnly(chapters_read) == DurationMinutes(chapters_read)

DurationSeconds(chapters_read) == DurationMinutes(chapters_read) * 60

\* CalculatedStart with the window closed at ShiftWindow (<= for <)
CalculatedStart_ShiftsAtWindow(original_start, last_busy_until) ==
    IF original_start < last_busy_until
       /\ (last_busy_until - original_start) <= ShiftWindow
    THEN last_busy_until + 1
    ELSE original_start

\* CalculatedStart without the shift
CalculatedStart_NeverShifts(original_start, last_busy_until) == original_start

\* CalculatedStart shifting every overlap, however old the activity
CalculatedStart_ShiftsEveryOverlap(original_start, last_busy_until) ==
    IF original_start < last_busy_until
    THEN last_busy_until + 1
    ELSE original_start

\* CalculatedStart shifting to the cursor itself (without the + 1)
CalculatedStart_ShiftsToCursor(original_start, last_busy_until) ==
    IF original_start < last_busy_until
       /\ (last_busy_until - original_start) < ShiftWindow
    THEN last_busy_until
    ELSE original_start

\* smart time shifting: the start of the session
CalculatedStart(original_start, last_busy_until) ==
    IF original_start < last_busy_until
       /\ (last_busy_until - original_start) < ShiftWindow
    THEN last_busy_until + 1
    ELSE original_start

\* TrackerAfter recording a progress of 0 too (>= for >)
TrackerAfter_RecordsZero(tracker, media_id, current_progress) ==
    IF current_progress >= 0
    THEN [m \in DOMAIN tracker \cup {media_id} |->
             IF m = media_id THEN current_progress ELSE tracker[m]]
    ELSE tracker

\* TrackerAfter keeping the larger of the stored and the current progress
TrackerAfter_KeepsMaximum(tracker, media_id, current_progress) ==
    IF current_progress > 0
       /\ (media_id \in DOMAIN tracker => current_progress > tracker[media_id])
    THEN [m \in DOMAIN tracker \cup {media_id} |->
             IF m = media_id THEN current_progress ELSE tracker[m]]
    ELSE tracker

\* the update of progress_tracker
TrackerAfter(tracker, media_id, current_progress) ==
    IF current_progress > 0
    THEN [m \in DOMAIN tracker \cup {media_id} |->
             IF m = media_id THEN current_progress ELSE tracker[m]]
    ELSE tracker

\* Emits with `current_progress > 0` for the truth test of current_progress
Emits_PositiveOnly(status, current_progress) ==
    status = "COMPLETED" \/ current_progress > 0

\* whether the iteration reaches the event block (no `continue`)
Emits(status, current_progress) ==
    status = "COMPLETED" \/ current_progress # 0

\* Summary with a range that starts at the previous progress itself
Summary_RangeFromPrevious(status, title, current_progress, previous_progress, chapters_read) ==
    IF status = "COMPLETED" THEN "Completed: " \o title
    ELSE IF chapters_read > 1
         THEN "Read " \o title \o " (Ch. " \o ToString(previous_progress)
              \o "-" \o ToString(current_progress) \o ")"
    ELSE "Read " \o title \o " Ch. " \o ToString(current_progress)

\* the summary of an emitted event
Summary(status, title, current_progress, previous_progress, chapters_read) ==
    IF status = "COMPLETED" THEN "Completed: " \o title
    ELSE IF chapters_read > 1
         THEN "Read " \o title \o " (Ch. " \o ToString(previous_progress + 1)
              \o "-" \o ToString(current_progress) \o ")"
    ELSE "Read " \o title \o " Ch. " \o ToString(current_progress)

\* EventBlock with DTEND taken from the start
EventBlock_EndsAtStart(act, calculated_start, calculated_end, summary, chapters_read) ==
    [uid |-> "anilist-" \o ToString(act.id) \o "@anilist.co",
     dtstamp |-> format_date_ics(calculated_start),
     dtstart |-> format_date_ics(calculated_start),
     dtend |-> format_date_ics(calculated_start),
     summary |-> summary,
     description |-> "Read " \o ToString(chapters_read) \o " chapters. Duration: "
                     \o ToString(DurationMinutes(chapters_read)) \o " mins."]

\* the VEVENT block
EventBlock(act, calculated_start, calculated_end, summary, chapters_read) ==
    [uid |-> "anilist-" \o ToString(act.id) \o "@anilist.co",
     dtstamp |-> format_date_ics(calculated_start),
     dtstart |-> format_date_ics(calculated_start),
     dtend |-> format_date_ics(calculated_end),
     summary |-> summary,
     description |-> "Read " \o ToString(chapters_read) \o " chapters. Duration: "
                     \o ToString(DurationMinutes(chapters_read)) \o " mins."]

\* the entry of generate_ics: the sort, and the fresh trackers
GenerateStart ==
    /\ pc = "generate_ics"
    /\ pc' = "loop"
    /\ activities' = SortById(all_activities)
    /\ idx' = 1
    /\ progress_tracker' = <<>>
    /\ global_last_end' = 0
    /\ ics_events' = <<>>
    /\ UNCHANGED <<outcome, db, page, all_activities, file, log>>
    /\ response' = ""
    /\ requested' = 0
    /\ slept' = 0
    /\ UNCHANGED <<raw, parsed>>

\* whether the iteration raises: act['media']['title'] is None, and
\* subscripting it is a TypeError; or parse_progress raises
IterationRaises(act) ==
    act.media.title = None \/ ParseRaises(act.progress)

\* an iteration raises: the exception leaves generate_ics and reaches
\* main's handler, which prints it; the file is not written
ProcessRaises ==
    /\ pc = "loop"
    /\ idx <= Len(activities)
    /\ IterationRaises(activities[idx])
    /\ pc' = "done"
    /\ outcome' = "error"
    /\ UNCHANGED <<db, page, all_activities, activities, idx, progress_tracker,
                   global_last_end, ics_events, file, log>>
    /\ UNCHANGED <<response, requested, slept, raw, parsed>>

\* one iteration of the for loop
ProcessActivity ==
    /\ pc = "loop"
    /\ idx <= Len(activities)
    /\ ~IterationRaises(activities[idx])
    /\ LET act == activities[idx]
           media_id == act.media.id
           title == TitleOf(act.media)
           status == act.status
           current_progress == parse_progress(act.progress)
           previous_progress == PreviousProgress(progress_tracker, media_id)
           chapters_read == ChaptersRead(current_progress, previous_progress)
           last_busy_until == global_last_end
           calculated_start == CalculatedStart(act.createdAt, last_busy_until)
           calculated_end == calculated_start + DurationSeconds(chapters_read)
           emits == Emits(status, current_progress)
       IN  /\ progress_tracker' =
                  TrackerAfter(progress_tracker, media_id, current_progress)
           /\ global_last_end' = calculated_end
           /\ ics_events' =
                  IF emits
                  THEN Append(ics_events,
                              EventBlock(act, calculated_start, calculated_end,
                                         Summary(status, title, current_progress,
                                                 previous_progress, chapters_read),
                                         chapters_read))
                  ELSE ics_events
           /\ log' = Append(log,
                  [act |-> act,
                   busy_before |-> last_busy_until,
                   tracker_before |-> progress_tracker,
                   events_before |-> ics_events,
                   current_progress |-> current_progress,
                   previous_progress |-> previous_progress,
                   chapters_read |-> chapters_read,
                   start |-> calculated_start,
                   end |-> calculated_end,
                   emitted |-> emits,
                   busy_after |-> calculated_end,
                   tracker_after |->
                       TrackerAfter(progress_tracker, media_id, current_progress)])
    /\ idx' = idx + 1
    /\ UNCHANGED <<pc, outcome, db, page, all_activities, activities, file>>
    /\ UNCHANGED <<response, requested, slept, raw, parsed>>

\* generate_ics as a function of its argument: the for loop over the
\* sorted list, from the tracker, the cursor and the events so far
RECURSIVE Reconstruct(_, _, _, _)
Reconstruct(acts, tracker, last_end, events) ==
    IF acts = <<>> THEN [raised |-> FALSE, events |-> events]
    ELSE IF IterationRaises(Head(acts)) THEN [raised |-> TRUE, events |-> <<>>]
    ELSE
      LET act == Head(acts)
          media_id == act.media.id
          title == TitleOf(act.media)
          status == act.status
          current_progress == parse_progress(act.progress)
          previous_progress == PreviousProgress(tracker, media_id)
          chapters_read == ChaptersRead(current_progress, previous_progress)
          calculated_start == CalculatedStart(act.createdAt, last_end)
          calculated_end == calculated_start + DurationSeconds(chapters_read)
      IN  Reconstruct(Tail(acts),
                      TrackerAfter(tracker, media_id, current_progress),
                      calculated_end,
                      IF Emits(status, current_progress)
                      THEN Append(events,
                                  EventBlock(act, calculated_start, calculated_end,
                                             Summary(status, title, current_progress,
                                                     previous_progress, chapters_read),
                                             chapters_read))
                      ELSE events)

\* the sort, the fresh trackers, the loop
generate_ics(acts) == Reconstruct(SortById(acts), <<>>, 0, <<>>)

\* the loop is over: END:VCALENDAR, and the file is written
GenerateFinish ==
    /\ pc = "loop"
    /\ idx > Len(activities)
    /\ pc' = "done"
    /\ outcome' = "written"
    /\ file' = [written |-> TRUE, events |-> ics_events]
    /\ UNCHANGED <<db, page, all_activities, activities, idx, progress_tracker,
                   global_last_end, ics_events, log>>
    /\ UNCHANGED <<response, requested, slept, raw, parsed>>

Next ==
    \/ GetUserIdFound
    \/ GetUserIdFails
    \/ NewActivity
    \/ FetchRateLimited
    \/ FetchErrors
    \/ FetchException
    \/ FetchEmptyPage
    \/ FetchLastPage
    \/ FetchPage
    \/ GenerateStart
    \/ ProcessActivity
    \/ ProcessRaises
    \/ GenerateFinish

Spec == Init /\ [][Next]_vars

(***************************************************************************)
(* get_manga_history on its own, on a feed that holds more than manga: the *)
(* program takes its next step whenever it has one (the request is         *)
(* answered, one way or another); the user need not record anything        *)
(***************************************************************************)
FetchInit ==
    /\ Init
    /\ \A k \in 1..Len(db) : [db[k] EXCEPT !.id = 0] \in MixedFamily

GetUserIdStep ==
    \/ GetUserIdFound
    \/ GetUserIdFails

LoopStep ==
    \/ FetchRateLimited
    \/ FetchErrors
    \/ FetchException
    \/ FetchEmptyPage
    \/ FetchLastPage
    \/ FetchPage

FetchNext ==
    \/ GetUserIdStep
    \/ NewActivity
    \/ LoopStep

FetchSpec ==
    /\ FetchInit
    /\ [][FetchNext]_vars
    /\ WF_vars(GetUserIdStep)
    /\ WF_vars(LoopStep)

(***************************************************************************)
(* generate_ics on its own, on a list given in any order of its ids, and   *)
(* called again on the same list                                           *)
(***************************************************************************)
GenerateInit ==
    /\ pc = "generate_ics"
    /\ outcome = ""
    /\ db = <<>>
    /\ page = 0
    /\ \E n \in 0..MaxActs : \E F \in Families : \E entries \in [1..n -> F] :
       \E ids \in Permutations(1..n) :
           all_activities = [k \in 1..n |-> [entries[k] EXCEPT !.id = ids[k]]]
    /\ activities = <<>>
    /\ idx = 0
    /\ progress_tracker = <<>>
    /\ global_last_end = 0
    /\ ics_events = <<>>
    /\ file = NoFile
    /\ log = <<>>
    /\ response = ""
    /\ requested = 0
    /\ slept = 0
    /\ raw = NoProgress
    /\ parsed = NotParsed

\* a second call on the same list, which the sort of the first call (in
\* place) has left sorted; the file of the first call is still there
CallAgain ==
    /\ pc = "done"
    /\ outcome = "written"
    /\ pc' = "generate_ics"
    /\ outcome' = ""
    /\ all_activities' = activities
    /\ activities' = <<>>
    /\ idx' = 0
    /\ log' = <<>>
    /\ UNCHANGED <<db, page, progress_tracker, global_last_end, ics_events,
                   file, response, requested, slept, raw, parsed>>

GenerateNext ==
    \/ GenerateStart
    \/ ProcessActivity
    \/ ProcessRaises
    \/ GenerateFinish
    \/ CallAgain

GenerateSpec == GenerateInit /\ [][GenerateNext]_vars

(***************************************************************************)
(* parse_progress called on its own, on one value of a bounded set         *)
(***************************************************************************)
MaxLen == 3

Alphabet == {"1", "7", " ", "-", "a"}

StringsUpTo(n) == UNION {[1..k -> Alphabet] : k \in 0..n}

ParseInputs ==
    {NoProgress, InfProgress, NanProgress}
    \cup {IntProgress(n) : n \in {-3, 0, 42, 122}}
    \cup {FloatProgress(t) : t \in {-27, 5, 27, 1210}}
    \cup {StrProgress(str) : str \in StringsUpTo(MaxLen)}
    \cup {StrProgress(<<"1", "1", "1", " ", "-", " ", "1", "2", "1">>)}

ParseInit ==
    /\ pc = "parse_progress"
    /\ outcome = ""
    /\ db = <<>>
    /\ page = 0
    /\ all_activities = <<>>
    /\ activities = <<>>
    /\ idx = 0
    /\ progress_tracker = <<>>
    /\ global_last_end = 0
    /\ ics_events = <<>>
    /\ file = NoFile
    /\ log = <<>>
    /\ response = ""
    /\ requested = 0
    /\ slept = 0
    /\ raw \in ParseInputs
    /\ parsed = NotParsed

\* the call returns
ParseReturns ==
    /\ pc = "parse_progress"
    /\ ~ParseRaises(raw)
    /\ pc' = "done"
    /\ parsed' = [called |-> TRUE, raised |-> FALSE, v |-> parse_progress(raw)]
    /\ UNCHANGED <<outcome, db, page, all_activities, activities, idx,
                   progress_tracker, global_last_end, ics_events, file, log,
                   response, requested, slept, raw>>

\* the call raises
ParseFails ==
    /\ pc = "parse_progress"
    /\ ParseRaises(raw)
    /\ pc' = "done"
    /\ parsed' = [called |-> TRUE, raised |-> TRUE, v |-> 0]
    /\ UNCHANGED <<outcome, db, page, all_activities, activities, idx,
                   progress_tracker, global_last_end, ics_events, file, log,
                   response, requested, slept, raw>>

ParseNext ==
    \/ ParseReturns
    \/ ParseFails

ParseSpec == ParseInit /\ [][ParseNext]_vars

(***************************************************************************)
(* Properties.  log[k] is the k-th activity the loop processed; the        *)
(* formulas restate what the claim expects of it and compare that with     *)
(* what the loop left in global_last_end, progress_tracker and ics_events. *)
(***************************************************************************)
Steps == 1..Len(log)

\* the cursor just before step k, read from the state the steps before left
CursorBefore(k) == IF k = 1 THEN 0 ELSE log[k - 1].busy_after

\* the cursor just after step k: the variable itself for the latest step
CursorAfter(k) == IF k = Len(log) THEN global_last_end ELSE log[k + 1].busy_before

\* the session length a claim expects for n chapters
ExpectedSeconds(n) == n * MINUTES_PER_CHAPTER * 60

\* the event step k appended, when it appended one
EventOf(k) ==
    IF k = Len(log) THEN ics_events[Len(ics_events)]
    ELSE log[k + 1].events_before[Len(log[k + 1].events_before)]

\* C1: the start of every processed activity is the cursor + 1 when its
\* createdAt lies less than 7200 s before the cursor, and its createdAt in
\* every other case (a gap of exactly 7200 included); its end is the start
\* plus chapters_read * MINUTES_PER_CHAPTER * 60; an emitted event carries
\* that start and that end.
C1_StartTimeResolution ==
    \A k \in Steps :
        LET e == log[k]
            busy_until == CursorBefore(k)
            createdAt == e.act.createdAt
            start == IF createdAt < busy_until /\ busy_until - createdAt < 7200
                     THEN busy_until + 1 ELSE createdAt
            end == start + ExpectedSeconds(e.chapters_read)
        IN  /\ e.busy_before = busy_until
            /\ e.start = start
            /\ e.end = end
            /\ e.emitted => /\ EventOf(k).dtstart = format_date_ics(start)
                            /\ EventOf(k).dtend = format_date_ics(end)

\* C1 witness: the scenario of the specification, a 15-chapter session
\* created at 1010 while the cursor is 3400 is moved to 3401 and ends at 7001;
\* the event says so
C1_Witness ==
    \E k \in Steps :
        /\ log[k].busy_before = 3400
        /\ log[k].act.createdAt = 1010
        /\ log[k].chapters_read = 15
        /\ log[k].start = 3401
        /\ global_last_end = 7001
        /\ ics_events[Len(ics_events)].dtstart = "19700101T005641Z"
        /\ ics_events[Len(ics_events)].dtend = "19700101T015641Z"

\* C2 as claimed: from the second processed activity on, the cursor after an
\* activity is at least the cursor before it.
C2_CursorNeverDecreases ==
    \A k \in Steps : k >= 2 => CursorAfter(k) >= CursorBefore(k)

\* C2 amended: the cursor after an activity is greater than the cursor
\* before it whenever the activity's createdAt is later than the cursor
\* minus 7200; an activity created 7200 s or more before the cursor sets the
\* cursor to createdAt + its duration, whatever the cursor was.
C2_CursorGrowsUnlessOldActivity ==
    \A k \in Steps :
        LET e == log[k]
            before == CursorBefore(k)
        IN  /\ e.act.createdAt > before - 7200 => CursorAfter(k) > before
            /\ e.act.createdAt <= before - 7200 =>
                   CursorAfter(k) = e.act.createdAt + ExpectedSeconds(e.chapters_read)

\* C2 witness: a second activity, created inside the window, has moved the
\* cursor forward
C2_Witness ==
    \E k \in Steps :
        /\ k >= 2
        /\ log[k].act.createdAt > CursorBefore(k) - 7200
        /\ log[k].act.createdAt < CursorBefore(k)
        /\ CursorAfter(k) > CursorBefore(k)

\* C3: after every processed activity, emitted or not, the cursor is that
\* activity's end; an activity without progress whose status is not
\* COMPLETED appends no event and leaves the cursor at its start + one
\* chapter.
C3_CursorIsEndOfProcessed ==
    \A k \in Steps :
        LET e == log[k]
        IN  /\ CursorAfter(k) = e.start + ExpectedSeconds(e.chapters_read)
            /\ CursorAfter(k) = e.end
            /\ (e.act.progress = NoProgress /\ e.act.status # "COMPLETED") =>
                   /\ ~e.emitted
                   /\ (IF k = Len(log) THEN ics_events
                       ELSE log[k + 1].events_before) = e.events_before
                   /\ CursorAfter(k) = e.start + ExpectedSeconds(1)

\* C3 witness: an activity without progress, not COMPLETED, was moved to the
\* cursor + 1, appended nothing and left the cursor one chapter later
C3_Witness ==
    /\ Len(log) >= 2
    /\ LET e == log[Len(log)]
       IN  /\ e.act.progress = NoProgress
           /\ e.act.status # "COMPLETED"
           /\ e.start = e.busy_before + 1
           /\ ics_events = e.events_before
           /\ ics_events # <<>>
           /\ global_last_end = e.busy_before + 1 + 240

\* the tracker just before and just after step k, and a title's entry in it
\* (0 when the title has none)
TrackerBefore(k) == IF k = 1 THEN <<>> ELSE log[k - 1].tracker_after

TrackerNow(k) ==
    IF k = Len(log) THEN progress_tracker ELSE log[k + 1].tracker_before

Stored(tracker, m) == IF m \in DOMAIN tracker THEN tracker[m] ELSE 0

\* the events just after step k
EventsNow(k) == IF k = Len(log) THEN ics_events ELSE log[k + 1].events_before

\* C4 as claimed: once an event is emitted the cursor is the end of the most
\* recently emitted event, and it is 0 before any event is emitted.
C4_CursorIsLastEmittedEnd ==
    IF ics_events = <<>> THEN global_last_end = 0
    ELSE ics_events[Len(ics_events)].dtend = format_date_ics(global_last_end)

\* C4 amended: the cursor is 0 until the first activity is processed and
\* then the end of the most recently processed activity, emitted or not; it
\* is the end of the most recently emitted event whenever the most recently
\* processed activity is the one that emitted it.
C4_CursorIsLastProcessedEnd ==
    /\ log = <<>> => global_last_end = 0
    /\ log # <<>> =>
           LET e == log[Len(log)]
           IN  /\ global_last_end = e.start + ExpectedSeconds(e.chapters_read)
               /\ e.emitted =>
                      /\ ics_events # <<>>
                      /\ ics_events[Len(ics_events)].dtend =
                             format_date_ics(global_last_end)
               /\ ~e.emitted => ics_events = e.events_before

\* C4 witness: an event was emitted, then an activity was skipped, and the
\* cursor is the end of the skipped one, not of the event
C4_Witness ==
    /\ Len(log) >= 2
    /\ log[Len(log) - 1].emitted
    /\ ~log[Len(log)].emitted
    /\ global_last_end = log[Len(log)].end
    /\ ics_events[Len(ics_events)].dtend # format_date_ics(global_last_end)

\* C5: an activity of title m with interpreted progress p leaves
\* progress_tracker[m] = p when p > 0 and leaves the entry of m as it was
\* (absent included) when p <= 0; the entries of all other titles are as
\* they were.
C5_TrackerUpdateAndFrame ==
    \A k \in Steps :
        LET e == log[k]
            m == e.act.media.id
            p == parse_progress(e.act.progress)
            before == TrackerBefore(k)
            after == TrackerNow(k)
        IN  /\ e.tracker_before = before
            /\ p > 0 => m \in DOMAIN after /\ after[m] = p
            /\ p <= 0 => /\ (m \in DOMAIN after) = (m \in DOMAIN before)
                         /\ m \in DOMAIN before => after[m] = before[m]
            /\ \A o \in (DOMAIN before \cup DOMAIN after) \ {m} :
                   /\ o \in DOMAIN before
                   /\ o \in DOMAIN after
                   /\ after[o] = before[o]

\* C5 witness: a title got its progress recorded while another title's
\* entry stayed, and an activity with progress <= 0 left an entry alone
C5_Witness ==
    \E k \in Steps :
        LET m == log[k].act.media.id
        IN  /\ log[k].current_progress > 0
            /\ \E o \in DOMAIN log[k].tracker_before : o # m
            /\ TrackerNow(k)[m] = log[k].current_progress

\* C6 as claimed: the stored progress of a title never decreases.
C6_ProgressNeverDecreases ==
    \A k \in Steps :
        \A m \in DOMAIN TrackerBefore(k) :
            Stored(TrackerNow(k), m) >= TrackerBefore(k)[m]

\* C6 amended: the stored progress of a title decreases exactly when an
\* activity of that title has a positive interpreted progress below the
\* stored value, which it replaces; after any other activity it is the same
\* or greater, and the entries of other titles do not change.
C6_ProgressDecreasesOnlyWhenOverwritten ==
    \A k \in Steps :
        LET e == log[k]
            m == e.act.media.id
            p == parse_progress(e.act.progress)
            b == Stored(TrackerBefore(k), m)
            a == Stored(TrackerNow(k), m)
        IN  /\ (a < b) = (p > 0 /\ p < b)
            /\ (p > 0 /\ p < b) => a = p
            /\ \A o \in DOMAIN TrackerBefore(k) :
                   o # m => Stored(TrackerNow(k), o) = TrackerBefore(k)[o]

\* C6 witness: a title with a stored progress got a further activity whose
\* progress is not lower, and the stored value did not decrease
C6_Witness ==
    \E k \in Steps :
        LET m == log[k].act.media.id
        IN  /\ m \in DOMAIN TrackerBefore(k)
            /\ log[k].current_progress >= TrackerBefore(k)[m]
            /\ TrackerNow(k)[m] >= TrackerBefore(k)[m]

\* C7: with previous progress 0 and current progress above 500 the chapters
\* read are 1; with previous 0 and current in 1..500 they are the current
\* progress; with previous > 0 and current > previous they are the
\* difference, however large.  The session lasts that many chapters.
C7_ImportNoiseCorrection ==
    \A k \in Steps :
        LET e == log[k]
            current == parse_progress(e.act.progress)
            previous == Stored(TrackerBefore(k), e.act.media.id)
            lasts(n) == /\ e.chapters_read = n
                        /\ CursorAfter(k) - e.start = ExpectedSeconds(n)
        IN  /\ (previous = 0 /\ current - 0 > 500) => lasts(1)
            /\ (previous = 0 /\ current >= 1 /\ current <= 500) => lasts(current)
            /\ (previous > 0 /\ current > previous) => lasts(current - previous)

\* C7 witness: an untracked title at progress 600 was counted as 1 chapter
C7_Witness ==
    \E k \in Steps :
        /\ log[k].previous_progress = 0
        /\ log[k].current_progress = 600
        /\ log[k].chapters_read = 1
        /\ log[k].end - log[k].start = 240

\* C8: an activity whose interpreted progress is not above the title's
\* stored progress counts exactly 1 chapter; every activity counts at least
\* 1 chapter, so its session lasts at least MINUTES_PER_CHAPTER * 60 seconds
\* and ends after it starts.
C8_RereadFloor ==
    \A k \in Steps :
        LET e == log[k]
            current == parse_progress(e.act.progress)
            previous == Stored(TrackerBefore(k), e.act.media.id)
        IN  /\ e.previous_progress = previous
            /\ current <= previous =>
                   /\ e.chapters_read = 1
                   /\ CursorAfter(k) - e.start = ExpectedSeconds(1)
                   /\ e.emitted => EventOf(k).description =
                                       "Read 1 chapters. Duration: 4 mins."
            /\ e.chapters_read >= 1
            /\ CursorAfter(k) - e.start >= MINUTES_PER_CHAPTER * 60
            /\ CursorAfter(k) > e.start

\* C8 witness: a title was read again at a lower progress than stored, and
\* the session lasts one chapter
C8_Witness ==
    \E k \in Steps :
        /\ log[k].previous_progress > 0
        /\ log[k].current_progress > 0
        /\ log[k].current_progress < log[k].previous_progress
        /\ log[k].chapters_read = 1
        /\ log[k].emitted

\* the number of steps up to k that qualify for an event
RECURSIVE Qualifying(_)
Qualifying(k) ==
    IF k = 0 THEN 0
    ELSE Qualifying(k - 1)
         + (IF log[k].act.status = "COMPLETED"
               \/ parse_progress(log[k].act.progress) # 0 THEN 1 ELSE 0)

\* C9: a processed activity appends an event if and only if its status is
\* COMPLETED or its interpreted progress is nonzero; it appends exactly one,
\* after the events already there, which stay as they were; the file that
\* is written holds exactly these events.
C9_EmissionAndLifecycle ==
    /\ \A k \in Steps :
           LET e == log[k]
               qualifies == e.act.status = "COMPLETED"
                            \/ parse_progress(e.act.progress) # 0
           IN  /\ e.emitted = qualifies
               /\ qualifies =>
                      /\ Len(EventsNow(k)) = Len(e.events_before) + 1
                      /\ SubSeq(EventsNow(k), 1, Len(e.events_before)) = e.events_before
                      /\ EventOf(k).uid
                             = "anilist-" \o ToString(e.act.id) \o "@anilist.co"
               /\ ~qualifies => EventsNow(k) = e.events_before
               /\ e.events_before = IF k = 1 THEN <<>> ELSE EventsNow(k - 1)
    /\ Len(ics_events) = Qualifying(Len(log))
    /\ file.written => file.events = ics_events /\ Len(log) = Len(activities)

\* C9 witness: the file is written after an activity with a negative
\* progress got an event and another, without progress, got none
C9_Witness ==
    /\ file.written
    /\ Len(file.events) = 1
    /\ \E k \in Steps : log[k].current_progress < 0 /\ log[k].emitted
    /\ \E k \in Steps : ~log[k].emitted

\* C10 as claimed: activities are processed, and events written, in
\* strictly ascending order of activity id, an event's UID is
\* anilist-<activity id>@anilist.co, and no two events share a UID.
C10_AscendingUniqueUids ==
    /\ \A j, k \in Steps : j < k => log[j].act.id < log[k].act.id
    /\ \A k \in Steps :
           log[k].emitted =>
               EventOf(k).uid = "anilist-" \o ToString(log[k].act.id) \o "@anilist.co"
    /\ \A j, k \in 1..Len(ics_events) :
           j # k => ics_events[j].uid # ics_events[k].uid

\* C11 as claimed: generate_ics raises for no input; once entered it
\* processes every activity and writes the file.
C11_ReconstructionNeverRaises ==
    (pc = "done" /\ idx >= 1) =>
        /\ outcome = "written"
        /\ file.written
        /\ Len(log) = Len(activities)

\* the reference of C12: the integer a segment holds once stripped, or 0
IntegerOrZero(seg) ==
    LET r == PyInt(Strip(seg)) IN IF r.ok THEN r.v ELSE 0

\* C12 as claimed: parse_progress never raises, and gives 0 for an absent
\* value, n for an integer n, the integer of the stripped last '-'-separated
\* segment (or 0) for a string with a '-', the stripped integer value (or 0)
\* for a string without one: "111 - 121" gives 121, "7" gives 7, "abc" 0.
C12_ParseProgressTotal ==
    parsed.called =>
        /\ ~parsed.raised
        /\ raw.kind = "none" => parsed.v = 0
        /\ raw.kind = "int" => parsed.v = raw.n
        /\ (raw.kind = "str" /\ HasDash(raw.s)) =>
               parsed.v = IntegerOrZero(LastPart(raw.s))
        /\ (raw.kind = "str" /\ ~HasDash(raw.s)) =>
               parsed.v = IntegerOrZero(raw.s)
        /\ raw = StrProgress(<<"1", "1", "1", " ", "-", " ", "1", "2", "1">>) =>
               parsed.v = 121
        /\ raw = StrProgress(<<"7">>) => parsed.v = 7
        /\ raw = StrProgress(<<"a", "a", "a">>) => parsed.v = 0

\* the title C13 expects: the English name, else the romanized name, else
\* "Unknown Title" (a name that is null or empty counts as missing)
ExpectedTitle(media) ==
    IF media.english # None /\ media.english # "" THEN media.english
    ELSE IF media.romaji # None /\ media.romaji # "" THEN media.romaji
    ELSE "Unknown Title"

\* C13: the summary of every emitted event is "Completed: {title}" when the
\* status is COMPLETED, whatever the progress; otherwise the progress is
\* nonzero and the summary is "Read {title} (Ch. {previous+1}-{current})"
\* when chapters_read > 1 and "Read {title} Ch. {current}" when
\* chapters_read = 1, previous being the title's recorded progress before
\* the activity; the title is the English name, else the romanized name,
\* else "Unknown Title".
C13_SummarySelection ==
    \A k \in Steps :
        log[k].emitted =>
            LET e == log[k]
                title == ExpectedTitle(e.act.media)
                current == parse_progress(e.act.progress)
                previous == Stored(TrackerBefore(k), e.act.media.id)
                summary == EventOf(k).summary
            IN  /\ e.chapters_read >= 1
                /\ e.act.status = "COMPLETED" =>
                       summary = "Completed: " \o title
                /\ e.act.status # "COMPLETED" =>
                       /\ current # 0
                       /\ e.chapters_read > 1 =>
                              summary = "Read " \o title \o " (Ch. "
                                        \o ToString(previous + 1) \o "-"
                                        \o ToString(current) \o ")"
                       /\ e.chapters_read = 1 =>
                              summary = "Read " \o title \o " Ch. "
                                        \o ToString(current)

\* C13 happens: a ranged summary from chapter 1, then one that starts
\* after the recorded progress of the title
C13_Witness ==
    /\ Len(log) >= 2
    /\ \E j \in Steps : \E k \in Steps :
           /\ j < k
           /\ log[j].emitted /\ log[k].emitted
           /\ EventOf(j).summary = "Read Solo Leveling (Ch. 1-5)"
           /\ EventOf(k).summary = "Read Solo Leveling (Ch. 6-600)"

\* C13 happens: a completed title whose progress resolves to 0
C13_CompletedWithoutProgress ==
    \E k \in Steps :
        /\ log[k].emitted
        /\ log[k].act.status = "COMPLETED"
        /\ parse_progress(log[k].act.progress) = 0
        /\ EventOf(k).summary = "Completed: Solo Leveling"

\* C13 happens: a title without a usable name, read one chapter further
C13_UnknownTitle ==
    \E k \in Steps :
        log[k].emitted /\ EventOf(k).summary = "Read Unknown Title Ch. 7"

\* C14: an activity whose createdAt lies 7200 s or more before the cursor is
\* left unshifted; when it and the activity processed just before it both
\* emit an event, its event starts at its createdAt, at least 7200 s before
\* the end of the event emitted immediately before it, so that
\* end[i] <= start[i+1] fails.
C14_OldActivityStaysUnshifted ==
    \A k \in Steps :
        (k >= 2 /\ CursorBefore(k) - log[k].act.createdAt >= 7200) =>
            /\ log[k].start = log[k].act.createdAt
            /\ (log[k - 1].emitted /\ log[k].emitted) =>
                   /\ EventOf(k).dtstart = format_date_ics(log[k].act.createdAt)
                   /\ EventOf(k - 1).dtend = format_date_ics(CursorBefore(k))
                   /\ log[k].start + 7200 <= log[k - 1].end
                   /\ ~(log[k - 1].end <= log[k].start)

\* C14 happens: ids ascend, the second activity is created 8200 s before
\* the cursor, and its event [6000, 12000] starts earlier than the event
\* [8200, 14200] emitted immediately before it and overlaps it
C14_Witness ==
    \E k \in Steps :
        /\ k >= 2
        /\ log[k - 1].act.id < log[k].act.id
        /\ log[k - 1].emitted /\ log[k].emitted
        /\ CursorBefore(k) - log[k].act.createdAt >= 7200
        /\ log[k].start = log[k].act.createdAt
        /\ log[k].start < log[k - 1].start
        /\ log[k].end > log[k - 1].start
        /\ log[k].start < log[k - 1].end
        /\ EventOf(k - 1).dtstart = "19700101T021640Z"
        /\ EventOf(k - 1).dtend = "19700101T035640Z"
        /\ EventOf(k).dtstart = "19700101T014000Z"
        /\ EventOf(k).dtend = "19700101T032000Z"

\* the hypothesis of C15 on the steps processed so far
NoOldActivity ==
    \A k \in Steps :
        \/ log[k].act.createdAt >= CursorBefore(k)
        \/ CursorBefore(k) - log[k].act.createdAt < 7200

\* C15: in a run where every activity is created at or after the cursor or
\* less than 7200 s before it, every processed session starts at or after
\* the end of the session processed before it, exactly 1 s after it when it
\* was shifted; no two emitted events overlap, and the starts of the events
\* and the cursor do not decrease.
C15_ConditionalNonOverlap ==
    NoOldActivity =>
        /\ \A k \in Steps :
               /\ CursorAfter(k) >= CursorBefore(k)
               /\ k >= 2 =>
                      /\ log[k].start >= log[k - 1].end
                      /\ log[k].act.createdAt < CursorBefore(k) =>
                             log[k].start = log[k - 1].end + 1
        /\ \A i \in Steps : \A j \in Steps :
               (i < j /\ log[i].emitted /\ log[j].emitted) =>
                   /\ log[i].end <= log[j].start
                   /\ log[i].start <= log[j].start
                   /\ EventOf(i).dtend = format_date_ics(log[i].end)
                   /\ EventOf(j).dtstart = format_date_ics(log[j].start)

\* C15 happens: two emitted events, the second one shifted to 1 s after the
\* end of the first
C15_Witness ==
    /\ NoOldActivity
    /\ \E k \in Steps :
           /\ k >= 2
           /\ log[k - 1].emitted /\ log[k].emitted
           /\ log[k].act.createdAt < CursorBefore(k)
           /\ log[k].start = log[k - 1].end + 1
           /\ log[k].start > log[k].act.createdAt

\* a step of get_manga_history that sends a request and handles the answer
RequestStep ==
    /\ pc = "get_manga_history"
    /\ \/ pc' # pc
       \/ page' # page
       \/ slept' # slept

\* C16, the steps: a request answered with 429 leaves the page counter and
\* the collected list as they were and the loop in place; the request that
\* follows a 429 asks for the same page; the page counter changes within the
\* loop only by + 1, after a non-empty page that reported hasNextPage.
C16_RetryStep ==
    /\ (RequestStep /\ slept' # slept) =>
           /\ response' = "429"
           /\ requested' = page
           /\ page' = page
           /\ all_activities' = all_activities
           /\ pc' = pc
    /\ (RequestStep /\ response = "429") => requested' = requested
    /\ (pc = "get_manga_history" /\ pc' = pc /\ page' # page) =>
           /\ page' = page + 1
           /\ response' = "more"
           /\ requested' = page
           /\ PageItems(page) # <<>>
           /\ HasNextPage(page)

\* C16: a page request answered with 429 leaves the page counter and the
\* collected list unchanged and the same page is requested again next; a 429
\* answer stays possible after any number of them (no retry limit); the
\* page counter advances, by exactly 1, only after a page that was processed,
\* was non-empty and reported hasNextPage.
C16_RateLimitRetry ==
    /\ [](pc = "get_manga_history" => ENABLED FetchRateLimited)
    /\ []((pc = "get_manga_history" /\ response = "429") => requested = page)
    /\ [][C16_RetryStep]_vars

\* C16 happens: page 2 has just been answered with 429, after page 1 was
\* collected and after an earlier 429
C16_Witness ==
    /\ pc = "get_manga_history"
    /\ response = "429"
    /\ slept = 0
    /\ page = 2
    /\ requested = 2
    /\ all_activities # <<>>

\* whether s is a prefix of t
IsPrefix(s, t) == Len(s) <= Len(t) /\ SubSeq(t, 1, Len(s)) = s

\* C17, the steps: the collected list only grows; an 'errors' response, an
\* empty page or an exception ends the loop and returns the list as it was
C17_PartialResultsStep ==
    /\ IsPrefix(all_activities, all_activities')
    /\ (RequestStep /\ response' \in {"errors", "exception", "empty"}) =>
           /\ pc' = "generate_ics"
           /\ all_activities' = all_activities
    /\ (RequestStep /\ pc' = "generate_ics") =>
           response' \in {"errors", "exception", "empty", "last"}
    /\ pc = "generate_ics" => all_activities' = all_activities

C18_FetchTermination ==
    /\ [](response \in {"errors", "exception", "empty", "last"} =>
             pc # "get_manga_history")
    /\ ([]<>(response # "429")) =>
           <>(pc \notin {"get_user_id", "get_manga_history"})
    /\ (<>[](response = "429")) =>
           /\ [](pc \in {"get_user_id", "get_manga_history"})
           /\ <>[](pc = "get_manga_history" /\ requested = page)

\* C18 happens: the loop has returned at the last page, the second one,
\* after an odd number of 429 answers
C18_Witness ==
    /\ pc = "generate_ics"
    /\ response = "last"
    /\ requested = 2
    /\ slept = 1

\* C19: an event with a ranged summary "(Ch. a-b)" (status not COMPLETED,
\* chapters_read > 1) has a <= b, and b - a + 1 is the number of chapters its
\* description reports and its duration is computed from, at
\* MINUTES_PER_CHAPTER minutes a chapter.
C19_RangeMatchesDescription ==
    \A k \in Steps :
        LET e == log[k]
            a == Stored(TrackerBefore(k), e.act.media.id) + 1
            b == parse_progress(e.act.progress)
            n == b - a + 1
        IN  (e.emitted /\ e.act.status # "COMPLETED" /\ e.chapters_read > 1) =>
                /\ a <= b
                /\ n = e.chapters_read
                /\ EventOf(k).summary =
                       "Read " \o ExpectedTitle(e.act.media) \o " (Ch. "
                       \o ToString(a) \o "-" \o ToString(b) \o ")"
                /\ EventOf(k).description =
                       "Read " \o ToString(n) \o " chapters. Duration: "
                       \o ToString(n * 4) \o " mins."
                /\ e.end - e.start = n * 4 * 60
                /\ EventOf(k).dtstart = format_date_ics(e.start)
                /\ EventOf(k).dtend = format_date_ics(e.start + n * 4 * 60)

\* C19 happens: chapters 11 to 25 of a title recorded at 10, 15 chapters
\* in 60 minutes
C19_Witness ==
    \E k \in Steps :
        /\ log[k].emitted
        /\ log[k].previous_progress = 10
        /\ log[k].chapters_read = 15
        /\ EventOf(k).summary = "Read Solo Leveling (Ch. 11-25)"
        /\ EventOf(k).description = "Read 15 chapters. Duration: 60 mins."
        /\ log[k].end - log[k].start = 3600

\* the list acts rearranged by the permutation q of its positions
Rearranged(acts, q) == [i \in 1..Len(acts) |-> acts[q[i]]]

DistinctIds(acts) ==
    \A i \in 1..Len(acts) : \A j \in 1..Len(acts) :
        i # j => acts[i].id # acts[j].id

\* C20: the loop starts from an empty per-title map, a cursor of 0 and no
\* events; what a call leaves (the events written, or the exception) is a
\* function of the list it was given; and for a list with pairwise distinct
\* ids that function gives the same events (UID, start, end, summary,
\* description) for every permutation of the list.
C20_OrderIndependence ==
    /\ (pc = "loop" /\ idx = 1) =>
           /\ progress_tracker = <<>>
           /\ global_last_end = 0
           /\ ics_events = <<>>
    /\ (pc = "done" /\ idx >= 1) =>
           /\ (outcome = "error") = generate_ics(all_activities).raised
           /\ outcome = "written" =>
                  file.events = generate_ics(all_activities).events
           /\ DistinctIds(all_activities) =>
                  \A q \in Permutations(1..Len(all_activities)) :
                      generate_ics(Rearranged(all_activities, q))
                          = generate_ics(all_activities)

\* C20 happens: two activities with distinct ids, handed over newest
\* first, whose events depend on the order of processing, were written
C20_Witness ==
    /\ pc = "done"
    /\ file.written
    /\ Len(all_activities) = 2
    /\ all_activities[1].id > all_activities[2].id
    /\ Len(file.events) = 2
    /\ Reconstruct(all_activities, <<>>, 0, <<>>).events # file.events

\* C20 happens: a second call has started, after a first one that wrote two
\* events and left its trackers behind, and it starts from fresh ones
C20_SecondCall ==
    /\ pc = "loop"
    /\ idx = 1
    /\ file.written
    /\ Len(file.events) = 2
    /\ progress_tracker = <<>>
    /\ global_last_end = 0

====
